---- MODULE Spec2Model ----
(***************************************************************************)
(* Model of ecoledirecte_py_client.client.Client: the authentication state *)
(* machine (GTK fetch, credential POST, MFA challenge and answer, device-  *)
(* token re-login, account resolution) and the request dispatcher.         *)
(*                                                                         *)
(* Every coroutine of Client is cut at its awaits on the transport: one    *)
(* action per call (the code up to the first request sent) and one action  *)
(* per returning request (the code from that await to the next one or to   *)
(* the end of the coroutine).                                              *)
(*                                                                         *)
(* Python str values that the code only transforms character by character  *)
(* (credentials, base64 text) are sequences of one-character strings; text *)
(* that comes out of bytes.decode("utf-8") is a sequence of code points.   *)
(***************************************************************************)
EXTENDS Integers, Sequences, FiniteSets, TLC

(***************************************************************************)
(* Bounds of the model                                                     *)
(***************************************************************************)
\* number of caller tasks that may have a coroutine of the client in flight
NumTasks == 2
\* longest account list of a login payload
MaxAccounts == 2
\* longest list of propositions of an MFA challenge
MaxChoices == 2
\* longest credential string given to the encoder
MaxLen == 3
\* longest list of periods in the payload of a grades response
MaxPeriods == 2

Tasks == 1..NumTasks

\* Python None, and the marker of an attribute that was never assigned
None == "None"
NoAttr == "NoAttr"

(***************************************************************************)
(* Values the environment (caller and server) may supply                   *)
(***************************************************************************)
\* x-token response header values and non-empty body token values
Tokens == {"t1", "t2"}
\* token field of a response body: missing, empty, or a value
BodyTokens == {None, ""} \cup Tokens
\* values of the GTK cookie
GtkValues == {"g1", "g2"}
\* the (username, password) pairs given to login
Credentials == { << <<"a">>, <<"p">> >>, << <<"b", "&">>, <<"\\", "\"">> >> }
\* cn and cv of an MFA answer response: missing, empty, or a value
CnValues == {None, "", "cn1", "cn2"}
CvValues == {None, "", "cv1"}
\* HTTP status codes
HttpStatuses == {200, 500}
\* the "code" field of a response body (NoCode: resp_json.get("code") is None)
NoCode == -1
ApiCodes == {NoCode, 200, 250, 505, 520, 517}
\* the "message" field of a response body
Messages == {None, "m1"}
\* entries of data["accounts"]: two students, two spellings of a family
\* account and an account of another type; eleves is the list of the ids
\* found under the profile of the entry (profile.eleves[i].id)
AccountSet ==
    { [id |-> 12345, typeCompte |-> "E", eleves |-> <<>>],
      [id |-> 12346, typeCompte |-> "E", eleves |-> <<>>],
      [id |-> 67890, typeCompte |-> "1", eleves |-> <<12345, 12346>>],
      [id |-> 67891, typeCompte |-> "Famille", eleves |-> <<12346>>],
      [id |-> 555, typeCompte |-> "P", eleves |-> <<>>] }
\* the device-token pairs a caller has to give to login: none saved, or a
\* saved pair
DevicePairs == { <<None, None>>, <<"cn1", "cv1">> }
\* dispatcher URLs
Urls == {"notes.awp", "cahierdetexte.awp"}

(***************************************************************************)
(* Client._encode_string                                                   *)
(***************************************************************************)
\* str.replace(old, new): every non-overlapping occurrence, left to right
RECURSIVE Replace(_, _, _)
Replace(s, old, new) ==
    IF Len(s) < Len(old) THEN s
    ELSE IF SubSeq(s, 1, Len(old)) = old
         THEN new \o Replace(SubSeq(s, Len(old) + 1, Len(s)), old, new)
         ELSE <<Head(s)>> \o Replace(Tail(s), old, new)

\* mutant of EncodeString: the percent sign itself is not escaped
EncodeStringPercentKept(string) ==
    LET s2 == Replace(string, <<"&">>, <<"%", "2", "6">>)
        s3 == Replace(s2, <<"+">>, <<"%", "2", "B">>)
        s4 == Replace(s3, <<"\\">>, <<"\\", "\\", "\\">>)
        s5 == Replace(s4, <<"\\", "\\">>, <<"\\", "\\", "\\", "\\">>)
    IN  Replace(s5, <<"\"">>, <<"\\", "\"">>)

\* the chain of replacements of _encode_string, in the order of the source
EncodeString(string) ==
    LET s1 == Replace(string, <<"%">>, <<"%", "2", "5">>)
        s2 == Replace(s1, <<"&">>, <<"%", "2", "6">>)
        s3 == Replace(s2, <<"+">>, <<"%", "2", "B">>)
        s4 == Replace(s3, <<"\\">>, <<"\\", "\\", "\\">>)
        s5 == Replace(s4, <<"\\", "\\">>, <<"\\", "\\", "\\", "\\">>)
    IN  Replace(s5, <<"\"">>, <<"\\", "\"">>)

(***************************************************************************)
(* base64.b64decode(p).decode("utf-8") and base64.b64encode, as the client *)
(* calls them (non-strict decoding: characters outside the alphabet are    *)
(* skipped, a complete pad sequence ends the input, an incomplete final    *)
(* quad is an error).                                                      *)
(***************************************************************************)
B64Alphabet ==
    << "A","B","C","D","E","F","G","H","I","J","K","L","M","N","O","P",
       "Q","R","S","T","U","V","W","X","Y","Z","a","b","c","d","e","f",
       "g","h","i","j","k","l","m","n","o","p","q","r","s","t","u","v",
       "w","x","y","z","0","1","2","3","4","5","6","7","8","9","+","/" >>

B64Chars == { B64Alphabet[i] : i \in 1..64 }

\* the 6-bit value of a character of the alphabet
B64Value(c) == (CHOOSE i \in 1..64 : B64Alphabet[i] = c) - 1

\* the outcome of a decoding step: the value, or the exception raised
Ok(v) == [ok |-> TRUE, val |-> v, exc |-> None]
Raise(e) == [ok |-> FALSE, val |-> <<>>, exc |-> e]

RECURSIVE A2bBase64(_, _, _, _, _)
A2bBase64(s, quad, left, pads, out) ==
    IF s = <<>>
    THEN IF quad # 0 THEN Raise("binascii.Error") ELSE Ok(out)
    ELSE LET c == Head(s) IN
         IF c = "="
         THEN IF quad >= 2 /\ quad + pads + 1 >= 4
              THEN Ok(out)
              ELSE A2bBase64(Tail(s), quad, left,
                             IF quad >= 2 THEN pads + 1 ELSE pads, out)
         ELSE IF c \notin B64Chars
         THEN A2bBase64(Tail(s), quad, left, pads, out)
         ELSE LET v == B64Value(c) IN
              CASE quad = 0 -> A2bBase64(Tail(s), 1, v, 0, out)
                [] quad = 1 -> A2bBase64(Tail(s), 2, v % 16, 0,
                                   Append(out, left * 4 + (v \div 16)))
                [] quad = 2 -> A2bBase64(Tail(s), 3, v % 4, 0,
                                   Append(out, left * 16 + (v \div 4)))
                [] quad = 3 -> A2bBase64(Tail(s), 0, 0, 0,
                                   Append(out, left * 64 + v))

\* bytes.decode("utf-8") for one- and two-byte sequences; every other lead
\* byte the model feeds it (0x80..0xC1, 0xF5..0xFF) is invalid in UTF-8
RECURSIVE Utf8Decode(_, _)
Utf8Decode(b, out) ==
    IF b = <<>> THEN Ok(out)
    ELSE IF b[1] < 128 THEN Utf8Decode(Tail(b), Append(out, b[1]))
    ELSE IF /\ b[1] >= 194 /\ b[1] <= 223 /\ Len(b) >= 2
            /\ b[2] >= 128 /\ b[2] <= 191
         THEN Utf8Decode(SubSeq(b, 3, Len(b)),
                         Append(out, (b[1] - 192) * 64 + (b[2] - 128)))
    ELSE Raise("UnicodeDecodeError")

\* base64.b64decode(p).decode("utf-8")
B64DecodeText(p) ==
    LET raw == A2bBase64(p, 0, 0, 0, <<>>)
    IN  IF raw.ok THEN Utf8Decode(raw.val, <<>>) ELSE raw

\* str.encode("utf-8") for code points below 0x800
RECURSIVE Utf8Encode(_)
Utf8Encode(text) ==
    IF text = <<>> THEN <<>>
    ELSE IF text[1] < 128 THEN <<text[1]>> \o Utf8Encode(Tail(text))
    ELSE <<192 + (text[1] \div 64), 128 + (text[1] % 64)>>
             \o Utf8Encode(Tail(text))

RECURSIVE B2aBase64(_)
B2aBase64(b) ==
    IF b = <<>> THEN <<>>
    ELSE IF Len(b) = 1
    THEN << B64Alphabet[(b[1] \div 4) + 1],
            B64Alphabet[(b[1] % 4) * 16 + 1], "=", "=" >>
    ELSE IF Len(b) = 2
    THEN << B64Alphabet[(b[1] \div 4) + 1],
            B64Alphabet[(b[1] % 4) * 16 + (b[2] \div 16) + 1],
            B64Alphabet[(b[2] % 16) * 4 + 1], "=" >>
    ELSE << B64Alphabet[(b[1] \div 4) + 1],
            B64Alphabet[(b[1] % 4) * 16 + (b[2] \div 16) + 1],
            B64Alphabet[(b[2] % 16) * 4 + (b[3] \div 64) + 1],
            B64Alphabet[(b[3] % 64) + 1] >>
         \o B2aBase64(SubSeq(b, 4, Len(b)))

\* base64.b64encode(answer.encode("utf-8")).decode("ascii")
B64EncodeText(answer) == B2aBase64(Utf8Encode(answer))

\* texts and encoded texts the server and the caller use
TextParis == <<80, 97, 114, 105, 115>>
TextLyon == <<76, 121, 111, 110>>
TextWhatCity == <<87, 104, 97, 116, 32, 99, 105, 116, 121, 63>>
EncParis == <<"U", "G", "F", "y", "a", "X", "M", "=">>
EncLyon == <<"T", "H", "l", "v", "b", "g", "=", "=">>
EncWhatCity ==
    <<"V","2","h","h","d","C","B","j","a","X","R","5","P","w","=","=">>
\* "UGFyaXM" lacks its padding; "/w==" is the byte 0xFF, not UTF-8
EncNoPadding == <<"U", "G", "F", "y", "a", "X", "M">>
EncNotUtf8 == <<"/", "w", "=", "=">>

\* what the server may send as a question and as a proposition
EncodedQuestions == {EncWhatCity, EncNoPadding}
EncodedChoices == {EncParis, EncLyon, EncNotUtf8}
\* what the caller may answer
Answers == {TextParis, TextLyon}
\* lines 138, 140: base64.b64decode(...).decode("utf-8") of each text a
\* challenge can carry (the empty text when the body has none), as a table
\* so that each decoding is computed once
DecodedTexts ==
    [p \in EncodedQuestions \cup EncodedChoices \cup {<<>>} |->
        B64DecodeText(p)]

\* all sequences over S of length at most n
SeqsUpTo(S, n) == UNION { [1..k -> S] : k \in 0..n }

(***************************************************************************)
(* Requests, responses and results                                         *)
(***************************************************************************)
\* truthiness of an optional str: `if value:` is false for None and for ""
Truthy(v) == v # None /\ v # ""

\* main_account_data.get("id") of an account without an id
NoId == 0

\* the values of data["accounts"]
AccountLists == SeqsUpTo(AccountSet, MaxAccounts)

\* A request handed to the transport.  kind names the call site, url the
\* endpoint; xgtk and xtoken are the headers of self.client.headers at the
\* moment of the call; the other fields are the body.  sent is FALSE when
\* the transport refuses the call because the client is closed.
Request(kind, url, hdrs, body, isSent) ==
    [kind |-> kind, url |-> url, xgtk |-> hdrs.gtk, xtoken |-> hdrs.tok,
     user |-> body.user, pass |-> body.pass, cn |-> body.cn, cv |-> body.cv,
     fa |-> body.fa, token |-> body.token, choix |-> body.choix,
     sent |-> isSent]

EmptyBody ==
    [user |-> <<>>, pass |-> <<>>, cn |-> None, cv |-> None, fa |-> <<>>,
     token |-> None, choix |-> <<>>]

NoRequest ==
    [kind |-> "none", url |-> None, xgtk |-> None, xtoken |-> None,
     user |-> <<>>, pass |-> <<>>, cn |-> None, cv |-> None, fa |-> <<>>,
     token |-> None, choix |-> <<>>, sent |-> FALSE]

LoginUrl == "login.awp"
DoubleAuthUrl == "doubleauth.awp"

\* A response of the transport: exc is the exception the call raised (None
\* when a response arrived); json tells whether the body parses; the other
\* fields are the status line, the headers, the cookies and the body.
BaseResponse ==
    [exc |-> None, status |-> 200, xtoken |-> None, cookie |-> None,
     json |-> TRUE, code |-> NoCode, message |-> None, token |-> None,
     accounts |-> <<>>, question |-> <<>>, propositions |-> <<>>,
     cn |-> None, cv |-> None, notes |-> <<>>, periodes |-> <<>>]

\* httpx.RequestError (connection refused, timeout) and the RuntimeError
\* httpx raises for a request on a closed client
NoResponse == [BaseResponse EXCEPT !.exc = "NoResponse"]
TransportFailure == [BaseResponse EXCEPT !.exc = "httpx.RequestError"]
ClosedFailure == [BaseResponse EXCEPT !.exc = "RuntimeError"]

\* status line and headers of any response
Envelopes ==
    { [BaseResponse EXCEPT !.status = st, !.xtoken = xt] :
        st \in HttpStatuses, xt \in {None} \cup Tokens }

\* responses to the GTK fetch: only the cookie is read
GtkResponses ==
    { [BaseResponse EXCEPT !.cookie = c] : c \in {None} \cup GtkValues }
        \cup {TransportFailure}

\* responses to the credential POST of login and of the re-login
LoginResponses ==
    { [e EXCEPT !.json = FALSE] : e \in Envelopes }
    \cup { [e EXCEPT !.code = c, !.message = m, !.token = bt] :
             e \in Envelopes, c \in ApiCodes \ {200}, m \in Messages,
             bt \in BodyTokens }
    \cup { [e EXCEPT !.code = 200, !.token = bt, !.accounts = al] :
             e \in Envelopes, bt \in BodyTokens, al \in AccountLists }
    \cup {TransportFailure}

\* responses to the challenge fetch
QcmResponses ==
    { [e EXCEPT !.json = FALSE] : e \in Envelopes }
    \cup { [e EXCEPT !.code = c] : e \in Envelopes, c \in ApiCodes \ {200} }
    \cup { [e EXCEPT !.code = 200, !.question = q, !.propositions = ps] :
             e \in Envelopes, q \in EncodedQuestions,
             ps \in SeqsUpTo(EncodedChoices, MaxChoices) }
    \cup {TransportFailure}

\* responses to the answer submission
AnswerResponses ==
    { [e EXCEPT !.json = FALSE] : e \in Envelopes }
    \cup { [e EXCEPT !.code = c, !.cn = n, !.cv = v] :
             e \in Envelopes, c \in ApiCodes,
             n \in CnValues, v \in CvValues }
    \cup {TransportFailure}

\* responses to a dispatcher request
RequestResponses ==
    { [e EXCEPT !.json = FALSE] : e \in Envelopes }
    \cup { [e EXCEPT !.code = c, !.message = m] :
             e \in Envelopes, c \in ApiCodes, m \in Messages }
    \cup {TransportFailure}

\* What a grades accessor returns: a dict holding one period or none ({}),
\* or the list of the notes
NoValue == [type |-> "none", period |-> <<>>, notes |-> <<>>]
EmptyDict == [NoValue EXCEPT !.type = "dict"]
PeriodValue(p) == [NoValue EXCEPT !.type = "dict", !.period = <<p>>]
NotesValue(notes) == [NoValue EXCEPT !.type = "list", !.notes = notes]

\* What a coroutine of the client ends with: the value it returns or the
\* exception it raises (cls the exception class, msg the message prefix).
NoResult ==
    [kind |-> "none", cls |-> None, msg |-> None, code |-> NoCode,
     message |-> None, id |-> NoId, accounts |-> <<>>, students |-> <<>>,
     question |-> <<>>, propositions |-> <<>>, value |-> NoValue]
Error(cls, msg) == [NoResult EXCEPT !.kind = "error", !.cls = cls, !.msg = msg]
\* mutant of ApiCodeError: the error tells the code but not the message
ApiCodeErrorWithoutMessage(code, message) ==
    [Error("ApiError", "API Error code") EXCEPT !.code = code]

\* lines 155-157 and 309-311:
\* ApiError(f"API Error code: {code}, message: {message}")
ApiCodeError(code, message) ==
    [Error("ApiError", "API Error code") EXCEPT !.code = code,
                                                !.message = message]
StudentResult(id) == [NoResult EXCEPT !.kind = "Student", !.id = id]

\* Family.__init__(client, data): one Student per entry of the profile of the
\* guardian account (data["accounts"][0]["profile"]["eleves"]), in the order
\* of the payload
FamilyStudents(accounts) ==
    [i \in 1..Len(accounts[1].eleves) |-> accounts[1].eleves[i]]

\* mutant of FamilyResult: the family is built from the main account entry
\* instead of the login data, so that it finds no account list in it
FamilyResultOfMainAccount(accounts) ==
    [NoResult EXCEPT !.kind = "Family", !.accounts = accounts]

\* Family(self, data) of _finalize_login; students are the ids of
\* family.students
FamilyResult(accounts) ==
    [NoResult EXCEPT !.kind = "Family", !.accounts = accounts,
                     !.students = FamilyStudents(accounts)]
JsonResult == [NoResult EXCEPT !.kind = "json"]
MFARequired(question, propositions) ==
    [NoResult EXCEPT !.kind = "error", !.cls = "MFARequiredError",
                     !.msg = "MFA Required", !.question = question,
                     !.propositions = propositions]

\* exceptions.py: MFARequiredError is a LoginError, which is an
\* EcoleDirecteError, as is ApiError; everything else is not of the library
IsInstance(cls, base) ==
    \/ cls = base
    \/ cls = "MFARequiredError" /\ base \in {"LoginError", "EcoleDirecteError"}
    \/ cls \in {"LoginError", "ApiError"} /\ base = "EcoleDirecteError"

(***************************************************************************)
(* Client._finalize_login                                                  *)
(***************************************************************************)
\* mutant of IsFamilyType: only the literal "Famille" names a family account
IsFamilyTypeLiteralOnly(account_type) == account_type = "Famille"

\* line 281: the two spellings of the family account type
IsFamilyType(account_type) == account_type = "Famille" \/ account_type = "1"

\* mutant of FinalizeLogin: the last account of the list is taken as the main
\* account
FinalizeLoginLastAccount(accounts_data) ==
    IF accounts_data = <<>> THEN Error("ApiError", "No accounts found")
    ELSE LET main_account_data == accounts_data[Len(accounts_data)]
             account_type == main_account_data.typeCompte
         IN  IF account_type = "E"
             THEN StudentResult(main_account_data.id)
             ELSE IF IsFamilyType(account_type)
             THEN FamilyResult(accounts_data)
             ELSE Error("ApiError", "Unknown account type")

FinalizeLogin(accounts_data) ==
    IF accounts_data = <<>> THEN Error("ApiError", "No accounts found")
    ELSE LET main_account_data == accounts_data[1]
             account_type == main_account_data.typeCompte
         IN  IF account_type = "E"
             THEN StudentResult(main_account_data.id)
             ELSE IF IsFamilyType(account_type)
             THEN FamilyResult(accounts_data)
             ELSE Error("ApiError", "Unknown account type")

\* the attributes cn and cv of a Client: __init__ does not create them and
\* no method of the class assigns them, so that reading client.cn or client.cv
\* raises AttributeError at every moment
ClientCn == NoAttr
ClientCv == NoAttr

\* the attribute of a Client that would hold an MFA callback: __init__ takes
\* no argument besides self and no method assigns such an attribute
ClientMfaCallback == NoAttr

(***************************************************************************)
(* State                                                                   *)
(***************************************************************************)
VARIABLES
    token,             \* self.token
    headers,           \* self.headers: the x-gtk and x-token entries
    client_headers,    \* self.client.headers: the same entries of the transport
    temp_credentials,  \* self._temp_credentials, NoAttr until login sets it
    closed,            \* self.client has been closed
    task,              \* the coroutine each caller task is running
    hist               \* history: the arguments of the latest login call
                       \* and the credentials its POST carried; raced is
                       \* <<u, v>> when the latest challenge went to a
                       \* login of u while the credentials cached were
                       \* those of a login of v, and <<>> otherwise

vars == <<token, headers, client_headers, temp_credentials, closed, task, hist>>

\* the entries of a header map the client ever adds or deletes
NoAuthHeaders == [gtk |-> None, tok |-> None]

\* the status and code of a response that login has not received
NoReply == [status |-> 0, code |-> NoCode]

\* A caller task: the coroutine it runs (op), the await it is suspended at
\* (pc), the arguments and locals of the coroutine, the kinds of the requests
\* it has sent, in order (log), the latest request it handed to the
\* transport (req), the latest response it got (resp), the status and code
\* of the response to the credential POST of login (login_reply), its
\* outcome, and what the client held when the call was made.  quarter is the
\* argument of a grades accessor: <<>> when it is left to its default None,
\* <<q>> when the caller gives q.  completed_mfa tells, of a task that is
\* idle, that the call it made last was a submit_mfa that returned a session.
IdleTask ==
    [op |-> "none", pc |-> "idle",
     username |-> <<>>, password |-> <<>>, cn |-> None, cv |-> None,
     quarter |-> <<>>,
     log |-> <<>>, req |-> NoRequest, resp |-> NoResponse, login_reply |-> NoReply,
     result |-> NoResult,
     tokenAtCall |-> None, loginCalledAtCall |-> FALSE,
     completed_mfa |-> FALSE]

Init ==
    /\ token = None
    /\ headers = NoAuthHeaders
    /\ client_headers = NoAuthHeaders
    /\ temp_credentials = NoAttr
    /\ closed = FALSE
    /\ task = [t \in Tasks |-> IdleTask]
    /\ hist = [loginCalled |-> FALSE, username |-> <<>>, password |-> <<>>,
               sent_user |-> <<>>, sent_pass |-> <<>>, raced |-> <<>>]

\* the responses the transport can give to a request of the given kind
ResponsesFor(set) == IF closed THEN {ClosedFailure} ELSE set

\* a coroutine starts: the task's record at the call
Started(t, op) ==
    [IdleTask EXCEPT !.op = op, !.tokenAtCall = token,
                     !.loginCalledAtCall = hist.loginCalled]

\* the coroutine hands a request to the transport and suspends at pc
Awaiting(tr, pc, req) ==
    [tr EXCEPT !.pc = pc, !.req = req,
               !.log = IF req.sent THEN Append(@, req.kind) ELSE @]

\* the response to the pending request is recorded
Received(tr, r) == [tr EXCEPT !.resp = r]

\* the coroutine returns or raises
Done(tr, res) == [tr EXCEPT !.pc = "done", !.result = res]

(***************************************************************************)
(* Client._get_gtk                                                         *)
(***************************************************************************)
\* mutant of DropGtk: the old x-gtk entry is kept while a new one is fetched
DropGtkKeepsOld(h) == h

\* lines 43-46: the x-gtk entry is deleted before a new one is requested
DropGtk(h) == [h EXCEPT !.gtk = None]

\* line 50: the GET of the login endpoint with the gtk marker
GtkRequest(hdrs) == Request("gtk", LoginUrl, hdrs, EmptyBody, ~closed)

\* mutant of GetGtkCatches: only the transport errors of httpx are caught
GetGtkCatchesRequestErrorOnly(exc) == exc = "httpx.RequestError"

\* line 63: `except Exception` catches whatever the fetch raises
GetGtkCatches(exc) == TRUE

\* lines 53-64: the cookie, if any, becomes the x-gtk entry; any exception
\* of the fetch is swallowed
StoreGtk(h, r) ==
    IF r.exc = None /\ Truthy(r.cookie) THEN [h EXCEPT !.gtk = r.cookie] ELSE h

(***************************************************************************)
(* Client.login                                                            *)
(***************************************************************************)
\* line 109: the body of the credential POST
LoginBody(username, password) ==
    [EmptyBody EXCEPT !.user = EncodeString(username),
                      !.pass = EncodeString(password)]

\* mutant of BodyTokenOr: the body token is stored even when it is missing
BodyTokenOnly(body_token, stored) == body_token

\* line 160: resp_json.get("token") or self.token
BodyTokenOr(body_token, stored) ==
    IF Truthy(body_token) THEN body_token ELSE stored

\* mutant of DecodePropositions: the decoded list is built back to front
DecodePropositionsReversed(propositions) ==
    [i \in 1..Len(propositions) |->
        DecodedTexts[propositions[Len(propositions) + 1 - i]]]

\* lines 137-141: the question and the propositions are decoded in order;
\* the first failing decode raises
DecodePropositions(propositions) ==
    [i \in 1..Len(propositions) |-> DecodedTexts[propositions[i]]]

\* mutant of CacheCredentials: credentials that are cached already are kept
CacheCredentialsOnce(cached, username, password) ==
    IF cached = NoAttr THEN <<username, password>> ELSE cached

\* line 84: self._temp_credentials = (username, password)
CacheCredentials(cached, username, password) == <<username, password>>

\* login is called: _get_gtk runs up to its request (lines 81, 39-50)
LoginCall(t, username, password) ==
    /\ task[t].pc = "idle"
    /\ headers' = DropGtk(headers)
    /\ client_headers' = DropGtk(client_headers)
    /\ task' = [task EXCEPT ![t] =
                 Awaiting([Started(t, "login") EXCEPT !.username = username,
                                                      !.password = password],
                          "login_gtk", GtkRequest(client_headers'))]
    /\ hist' = [hist EXCEPT !.loginCalled = TRUE, !.username = username,
                             !.password = password]
    /\ UNCHANGED <<token, temp_credentials, closed>>

\* login is called with the keyword arguments cn and cv, as the demo calls
\* it: the signature of line 79 has no such parameters, so the call raises
\* TypeError before any line of login runs
LoginCallWithDeviceTokens(t, username, password, cn, cv) ==
    /\ task[t].pc = "idle"
    /\ task' = [task EXCEPT ![t] =
                 Done([Started(t, "login") EXCEPT !.username = username,
                                                  !.password = password,
                                                  !.cn = cn, !.cv = cv],
                      Error("TypeError", None))]
    /\ UNCHANGED <<token, headers, client_headers, temp_credentials, closed,
                   hist>>

\* the GTK fetch of login returns: lines 53-64, then 84-118 up to the POST
LoginGtkReturn(t, r) ==
    /\ task[t].pc = "login_gtk"
    /\ IF r.exc # None /\ ~GetGtkCatches(r.exc)
       THEN /\ task' = [task EXCEPT ![t] =
                        Done(Received(@, r), Error(r.exc, None))]
            /\ UNCHANGED <<headers, client_headers, temp_credentials, hist>>
       ELSE /\ headers' = StoreGtk(headers, r)
            /\ client_headers' = StoreGtk(client_headers, r)
            /\ temp_credentials' =
                   CacheCredentials(temp_credentials,
                                    task[t].username, task[t].password)
            /\ task' = [task EXCEPT ![t] =
                 Awaiting(Received(@, r), "login_post",
                          Request("login", LoginUrl, client_headers',
                                  LoginBody(task[t].username, task[t].password),
                                  ~closed))]
            /\ hist' = [hist EXCEPT
                 !.sent_user = LoginBody(task[t].username, task[t].password).user,
                 !.sent_pass = LoginBody(task[t].username, task[t].password).pass]
    /\ UNCHANGED <<token, closed>>

\* lines 122-125, 179-182: a response with an x-token header
HasXToken(r) == r.exc = None /\ r.xtoken # None

\* the token and the two header maps the client holds
Stored ==
    [token |-> token, headers |-> headers, client_headers |-> client_headers]

\* mutant of CaptureToken: the header maps are written before self.token is
\* assigned, so that they get the token stored until then
CaptureTokenStaleHeader(s, value) ==
    [token |-> value,
     headers |-> [s.headers EXCEPT !.tok = s.token],
     client_headers |-> [s.client_headers EXCEPT !.tok = s.token]]

\* lines 123-125, 180-182: the x-token value of a response becomes the token
\* and the x-token entry of both header maps
CaptureToken(s, value) ==
    [token |-> value,
     headers |-> [s.headers EXCEPT !.tok = value],
     client_headers |-> [s.client_headers EXCEPT !.tok = value]]

\* line 172-173: the challenge fetch
QcmRequest(hdrs) == Request("qcm", DoubleAuthUrl, hdrs, EmptyBody, ~closed)

\* mutant of LoginBranch: code 505 is taken for an MFA request as well
LoginBranchMfaOn505(r) ==
    IF r.status # 200 THEN "http_error"
    ELSE IF ~r.json THEN "bad_json"
    ELSE IF r.code = 250 \/ r.code = 505 THEN "mfa"
    ELSE IF r.code # 200 THEN "api_error"
    ELSE "success"

\* lines 127-157: what login does with the status and the code of a response
\* that arrived: "http_error", "bad_json", "mfa", "login_error", "api_error"
\* or "success"
LoginBranch(r) ==
    IF r.status # 200 THEN "http_error"
    ELSE IF ~r.json THEN "bad_json"
    ELSE IF r.code = 250 THEN "mfa"
    ELSE IF r.code = 505 THEN "login_error"
    ELSE IF r.code # 200 THEN "api_error"
    ELSE "success"

\* the credential POST of login returns: lines 119-167, up to the challenge
\* fetch when the code is 250
LoginPostReturn(t, r) ==
    /\ task[t].pc = "login_post"
    /\ LET tr == [Received(task[t], r) EXCEPT
                     !.login_reply = IF r.exc = None
                                     THEN [status |-> r.status,
                                           code |-> IF r.json THEN r.code
                                                    ELSE NoCode]
                                     ELSE NoReply]
           captured == IF HasXToken(r) THEN CaptureToken(Stored, r.xtoken)
                       ELSE Stored
           tok1 == captured.token
           h1 == captured.headers
           ch1 == captured.client_headers
           branch == LoginBranch(r)
       IN  /\ headers' = h1
           /\ client_headers' = ch1
           /\ IF r.exc = "httpx.RequestError"
              THEN /\ token' = tok1
                   /\ task' = [task EXCEPT ![t] =
                        Done(tr, Error("ApiError", "Request failed"))]
              ELSE IF r.exc # None
              THEN /\ token' = tok1
                   /\ task' = [task EXCEPT ![t] = Done(tr, Error(r.exc, None))]
              ELSE IF branch = "http_error"
              THEN /\ token' = tok1
                   /\ task' = [task EXCEPT ![t] =
                        Done(tr, Error("ApiError", "HTTP Error"))]
              ELSE IF branch = "bad_json"
              THEN /\ token' = tok1
                   /\ task' = [task EXCEPT ![t] =
                        Done(tr, Error("JSONDecodeError", None))]
              ELSE IF branch = "mfa"
              THEN /\ token' = tok1
                   /\ task' = [task EXCEPT ![t] =
                        Awaiting(tr, "login_qcm", QcmRequest(ch1))]
              ELSE IF branch = "login_error"
              THEN /\ token' = tok1
                   /\ task' = [task EXCEPT ![t] =
                        Done(tr, Error("LoginError", "Valid credentials required"))]
              ELSE IF branch = "api_error"
              THEN /\ token' = tok1
                   /\ task' = [task EXCEPT ![t] =
                        Done(tr, ApiCodeError(r.code, r.message))]
              ELSE /\ token' = BodyTokenOr(r.token, tok1)
                   /\ task' = [task EXCEPT ![t] =
                        Done(tr, FinalizeLogin(r.accounts))]
    /\ UNCHANGED <<temp_credentials, closed, hist>>

\* the first decode that raises, in the order question, propositions
FirstDecodeError(question, propositions) ==
    IF ~question.ok THEN question.exc
    ELSE IF \E i \in 1..Len(propositions) : ~propositions[i].ok
    THEN LET i == CHOOSE j \in 1..Len(propositions) :
                    /\ ~propositions[j].ok
                    /\ \A k \in 1..(j - 1) : propositions[k].ok
         IN  propositions[i].exc
    ELSE None

\* the challenge fetch returns: lines 174-184 of _get_qcm_connexion, then
\* lines 137-147 of login; a transport failure of the fetch is caught by
\* login (line 166)
LoginQcmReturn(t, r) ==
    /\ task[t].pc = "login_qcm"
    /\ LET tr == Received(task[t], r)
           fetched == r.exc = None /\ r.json /\ r.code = 200
           question == DecodedTexts[r.question]
           propositions == DecodePropositions(r.propositions)
           failure == FirstDecodeError(question, propositions)
       IN  /\ task' = [task EXCEPT ![t] =
                IF r.exc = "httpx.RequestError"
                THEN Done(tr, Error("ApiError", "Request failed"))
                ELSE IF r.exc # None THEN Done(tr, Error(r.exc, None))
                ELSE IF ~r.json THEN Done(tr, Error("JSONDecodeError", None))
                ELSE IF r.code # 200
                THEN Done(tr, Error("ApiError", "Failed to get MFA QCM"))
                ELSE IF failure # None THEN Done(tr, Error(failure, None))
                ELSE Done(tr, MFARequired(question.val,
                        [i \in 1..Len(propositions) |-> propositions[i].val]))]
           /\ LET captured == IF fetched /\ HasXToken(r)
                               THEN CaptureToken(Stored, r.xtoken)
                               ELSE Stored
              IN  /\ token' = captured.token
                  /\ headers' = captured.headers
                  /\ client_headers' = captured.client_headers
           /\ hist' = IF task'[t].result.cls = "MFARequiredError"
                      THEN [hist EXCEPT
                              !.raced =
                                  IF temp_credentials =
                                       <<task[t].username, task[t].password>>
                                  THEN <<>>
                                  ELSE << task[t].username,
                                          temp_credentials[1] >>]
                      ELSE hist
    /\ UNCHANGED <<temp_credentials, closed>>

(***************************************************************************)
(* Client.submit_mfa and Client._login_with_cn_cv                           *)
(***************************************************************************)
\* line 205: the body of the answer submission
AnswerBody(answer) == [EmptyBody EXCEPT !.choix = B64EncodeText(answer)]

\* mutant of DeviceTokenArray: the entry of the array repeats cn as its cv
DeviceTokenArrayCnTwice(cn, cv) == << [cn |-> cn, cv |-> cn] >>

\* line 254: the "fa" array of the re-login body, one entry
DeviceTokenArray(cn, cv) == << [cn |-> cn, cv |-> cv] >>

\* mutant of ReloginBody: the credentials are sent as given, not escaped
ReloginBodyUnescaped(credentials, cn, cv) ==
    [EmptyBody EXCEPT !.user = credentials[1], !.pass = credentials[2],
                      !.cn = cn, !.cv = cv, !.fa = DeviceTokenArray(cn, cv)]

\* line 254: the body of the re-login with the device tokens
ReloginBody(credentials, cn, cv) ==
    [EmptyBody EXCEPT !.user = EncodeString(credentials[1]),
                      !.pass = EncodeString(credentials[2]),
                      !.cn = cn, !.cv = cv, !.fa = DeviceTokenArray(cn, cv)]

\* mutant of DeviceTokensMissing: the answer is refused only when both cn and
\* cv are missing
DeviceTokensBothMissing(cn, cv) == ~Truthy(cn) /\ ~Truthy(cv)

\* line 218: `if not cn or not cv`
DeviceTokensMissing(cn, cv) == ~Truthy(cn) \/ ~Truthy(cv)

\* submit_mfa is called: lines 201-207 up to the POST of the answer
SubmitMfaCall(t, answer) ==
    /\ task[t].pc = "idle"
    /\ task' = [task EXCEPT ![t] =
                 Awaiting(Started(t, "submit_mfa"), "mfa_post",
                          Request("answer", DoubleAuthUrl, client_headers,
                                  AnswerBody(answer), ~closed))]
    /\ UNCHANGED <<token, headers, client_headers, temp_credentials, closed,
                   hist>>

\* mutant of MfaPostReturn: the x-token header of the answer response is
\* captured before the response is looked at
MfaPostReturnCapturesToken(t, r) ==
    /\ task[t].pc = "mfa_post"
    /\ LET tr == Received(task[t], r)
           captured == IF HasXToken(r) THEN CaptureToken(Stored, r.xtoken)
                       ELSE Stored
           failure ==
               IF r.exc # None THEN Error(r.exc, None)
               ELSE IF ~r.json THEN Error("JSONDecodeError", None)
               ELSE IF r.code # 200 THEN Error("ApiError", "MFA Failed")
               ELSE IF DeviceTokensMissing(r.cn, r.cv)
               THEN Error("ApiError", "MFA success but CN/CV missing")
               ELSE NoResult
       IN  /\ token' = captured.token
           /\ IF failure # NoResult
              THEN /\ task' = [task EXCEPT ![t] = Done(tr, failure)]
                   /\ headers' = captured.headers
                   /\ client_headers' = captured.client_headers
              ELSE /\ headers' = DropGtk(captured.headers)
                   /\ client_headers' = DropGtk(captured.client_headers)
                   /\ task' = [task EXCEPT ![t] =
                        Awaiting([tr EXCEPT !.cn = r.cn, !.cv = r.cv],
                                 "relogin_gtk", GtkRequest(client_headers'))]
    /\ UNCHANGED <<temp_credentials, closed, hist>>

\* the answer submission returns: lines 208-222, then _login_with_cn_cv up to
\* the request of _get_gtk (lines 225, 39-50)
MfaPostReturn(t, r) ==
    /\ task[t].pc = "mfa_post"
    /\ LET tr == Received(task[t], r)
           failure ==
               IF r.exc # None THEN Error(r.exc, None)
               ELSE IF ~r.json THEN Error("JSONDecodeError", None)
               ELSE IF r.code # 200 THEN Error("ApiError", "MFA Failed")
               ELSE IF DeviceTokensMissing(r.cn, r.cv)
               THEN Error("ApiError", "MFA success but CN/CV missing")
               ELSE NoResult
       IN  IF failure # NoResult
           THEN /\ task' = [task EXCEPT ![t] = Done(tr, failure)]
                /\ UNCHANGED <<headers, client_headers>>
           ELSE /\ headers' = DropGtk(headers)
                /\ client_headers' = DropGtk(client_headers)
                /\ task' = [task EXCEPT ![t] =
                     Awaiting([tr EXCEPT !.cn = r.cn, !.cv = r.cv],
                              "relogin_gtk", GtkRequest(client_headers'))]
    /\ UNCHANGED <<token, temp_credentials, closed, hist>>

\* the GTK fetch of the re-login returns: lines 53-64, then 236-258 up to the
\* POST
ReloginGtkReturn(t, r) ==
    /\ task[t].pc = "relogin_gtk"
    /\ headers' = StoreGtk(headers, r)
    /\ client_headers' = StoreGtk(client_headers, r)
    /\ task' = [task EXCEPT ![t] =
         IF r.exc # None /\ ~GetGtkCatches(r.exc)
         THEN Done(Received(@, r), Error(r.exc, None))
         ELSE IF temp_credentials = NoAttr
         THEN Done(Received(@, r),
                   Error("ApiError", "Credentials lost during MFA flow"))
         ELSE Awaiting(Received(@, r), "relogin_post",
                       Request("relogin", LoginUrl, client_headers',
                               ReloginBody(temp_credentials,
                                           task[t].cn, task[t].cv),
                               ~closed))]
    /\ UNCHANGED <<token, temp_credentials, closed, hist>>

\* the re-login POST returns: lines 259-269
ReloginPostReturn(t, r) ==
    /\ task[t].pc = "relogin_post"
    /\ LET tr == Received(task[t], r)
           failure ==
               IF r.exc # None THEN Error(r.exc, None)
               ELSE IF ~r.json THEN Error("JSONDecodeError", None)
               ELSE IF r.code # 200
               THEN Error("ApiError", "Login with MFA failed")
               ELSE NoResult
       IN  IF failure # NoResult
           THEN /\ task' = [task EXCEPT ![t] = Done(tr, failure)]
                /\ UNCHANGED <<token, headers, client_headers>>
           ELSE /\ token' = r.token
                /\ headers' = IF Truthy(r.token)
                              THEN [headers EXCEPT !.tok = r.token]
                              ELSE headers
                /\ client_headers' = IF Truthy(r.token)
                                     THEN [client_headers EXCEPT !.tok = r.token]
                                     ELSE client_headers
                /\ task' = [task EXCEPT ![t] =
                     Done(tr, FinalizeLogin(r.accounts))]
    /\ UNCHANGED <<temp_credentials, closed, hist>>

(***************************************************************************)
(* Client.request and Client.close                                         *)
(***************************************************************************)
\* mutant of RequestBody: the payload is sent as the caller gave it, without
\* the token
RequestBodyWithoutToken == EmptyBody

\* lines 295-299: the token is put in the payload when there is one
RequestBody == [EmptyBody EXCEPT !.token = IF Truthy(token) THEN token ELSE None]

\* request is called: lines 288-302 up to the POST
RequestCall(t, url) ==
    /\ task[t].pc = "idle"
    /\ task' = [task EXCEPT ![t] =
                 Awaiting(Started(t, "request"), "request_post",
                          Request("request", url, client_headers,
                                  RequestBody, ~closed))]
    /\ UNCHANGED <<token, headers, client_headers, temp_credentials, closed,
                   hist>>

\* mutant of RequestOutcome: code 250 is taken for an MFA request, as in
\* login
RequestOutcomeMfaOn250(r) ==
    IF r.status # 200 THEN Error("ApiError", "HTTP Error")
    ELSE IF ~r.json THEN Error("JSONDecodeError", None)
    ELSE IF r.code = 250 THEN MFARequired(<<>>, <<>>)
    ELSE IF r.code # 200 THEN ApiCodeError(r.code, r.message)
    ELSE JsonResult

\* lines 303-313: what request makes of a response that arrived
RequestOutcome(r) ==
    IF r.status # 200 THEN Error("ApiError", "HTTP Error")
    ELSE IF ~r.json THEN Error("JSONDecodeError", None)
    ELSE IF r.code # 200 THEN ApiCodeError(r.code, r.message)
    ELSE JsonResult

\* mutant of RequestReturn: a request that failed at transport level is sent
\* once more
RequestReturnRetriesOnce(t, r) ==
    /\ task[t].pc = "request_post"
    /\ task' = [task EXCEPT ![t] =
         IF r.exc = "httpx.RequestError" /\ Len(task[t].log) < 2
         THEN Awaiting(Received(@, r), "request_post", task[t].req)
         ELSE Done(Received(@, r),
                   IF r.exc = "httpx.RequestError"
                   THEN Error("ApiError", "Request failed")
                   ELSE IF r.exc # None THEN Error(r.exc, None)
                   ELSE RequestOutcome(r))]
    /\ UNCHANGED <<token, headers, client_headers, temp_credentials, closed,
                   hist>>

\* the POST of request returns: lines 303-316
RequestReturn(t, r) ==
    /\ task[t].pc = "request_post"
    /\ task' = [task EXCEPT ![t] =
         Done(Received(@, r),
              IF r.exc = "httpx.RequestError"
              THEN Error("ApiError", "Request failed")
              ELSE IF r.exc # None THEN Error(r.exc, None)
              ELSE RequestOutcome(r))]
    /\ UNCHANGED <<token, headers, client_headers, temp_credentials, closed,
                   hist>>

\* close: the transport is closed, nothing of the client is reset; the
\* caller closes when none of its calls is in flight
Close ==
    /\ ~closed
    /\ \A t \in Tasks : task[t].pc = "idle"
    /\ closed' = TRUE
    /\ UNCHANGED <<token, headers, client_headers, temp_credentials, task,
                   hist>>

\* the caller takes the outcome of a finished coroutine
Finish(t) ==
    /\ task[t].pc = "done"
    /\ task' = [task EXCEPT ![t] =
                 [IdleTask EXCEPT !.completed_mfa =
                     /\ task[t].op = "submit_mfa"
                     /\ task[t].result.kind \in {"Student", "Family"}]]
    /\ UNCHANGED <<token, headers, client_headers, temp_credentials, closed,
                   hist>>

(***************************************************************************)
(* Student.get_grades and GradesManager.get                                *)
(***************************************************************************)
\* the two accessors; lines 18-31 of student.py and lines 29-45 of
\* grades_manager.py are the same statements, on self.session and on
\* self.client
GradesAccessors == {"Student.get_grades", "GradesManager.get"}

\* str(n) of a non-negative int, as f"{quarter}" formats it
Digits == <<"0", "1", "2", "3", "4", "5", "6", "7", "8", "9">>
RECURSIVE IntStr(_)
IntStr(n) ==
    IF n < 10 THEN << Digits[n + 1] >>
    ELSE IntStr(n \div 10) \o << Digits[(n % 10) + 1] >>

\* period_id = f"A00{quarter}"
PeriodId(q) == <<"A", "0", "0">> \o IntStr(q)

\* `if quarter:` is false for None and for 0
QuarterGiven(quarter) == quarter # <<>> /\ quarter[1] # 0

\* student.py lines 22-31, grades_manager.py lines 34-45: the first period
\* of data["periodes"] with the id of the quarter, {} when there is none,
\* and data["notes"] when `if quarter:` is false
GradesOf(r, quarter) ==
    IF QuarterGiven(quarter)
    THEN LET found == { i \in 1..Len(r.periodes) :
                          r.periodes[i].idPeriode = PeriodId(quarter[1]) }
         IN  IF found = {} THEN EmptyDict
             ELSE PeriodValue(r.periodes[CHOOSE i \in found :
                                            \A j \in found : i <= j])
    ELSE NotesValue(r.notes)

\* an accessor is called: it calls request (client.py lines 288-302) with
\* the notes URL of the student and no payload
GetGradesCall(t, accessor, quarter) ==
    /\ task[t].pc = "idle"
    /\ task' = [task EXCEPT ![t] =
                 Awaiting([Started(t, accessor) EXCEPT !.quarter = quarter],
                          "grades_post",
                          Request("request", "notes.awp", client_headers,
                                  RequestBody, ~closed))]
    /\ UNCHANGED <<token, headers, client_headers, temp_credentials, closed,
                   hist>>

\* the POST of request returns (client.py lines 303-316); an exception of
\* request goes through the accessor, a payload is filtered
GetGradesReturn(t, r) ==
    /\ task[t].pc = "grades_post"
    /\ LET outcome == IF r.exc = "httpx.RequestError"
                      THEN Error("ApiError", "Request failed")
                      ELSE IF r.exc # None THEN Error(r.exc, None)
                      ELSE RequestOutcome(r)
       IN  task' = [task EXCEPT ![t] =
             Done(Received(@, r),
                  IF outcome.kind = "json"
                  THEN [NoResult EXCEPT !.kind = "grades",
                                        !.value = GradesOf(r, task[t].quarter)]
                  ELSE outcome)]
    /\ UNCHANGED <<token, headers, client_headers, temp_credentials, closed,
                   hist>>

(***************************************************************************)
(* Specification: the caller serializes its calls on the client (one       *)
(* coroutine in flight at a time, its outcome taken before the next call)  *)
(***************************************************************************)
AllIdle == \A t \in Tasks : task[t].pc = "idle"

\* which task issues a call makes no difference to the client when the
\* calls are serialized: the caller uses its first task
SerialCall(t) == AllIdle /\ \A u \in Tasks : t <= u

Next ==
    \/ \E t \in Tasks, c \in Credentials :
           SerialCall(t) /\ LoginCall(t, c[1], c[2])
    \/ \E t \in Tasks, c \in Credentials, d \in DevicePairs :
           SerialCall(t) /\ LoginCallWithDeviceTokens(t, c[1], c[2], d[1], d[2])
    \/ \E t \in Tasks :
           /\ task[t].pc = "login_gtk"
           /\ \E r \in ResponsesFor(GtkResponses) : LoginGtkReturn(t, r)
    \/ \E t \in Tasks :
           /\ task[t].pc = "login_post"
           /\ \E r \in ResponsesFor(LoginResponses) : LoginPostReturn(t, r)
    \/ \E t \in Tasks :
           /\ task[t].pc = "login_qcm"
           /\ \E r \in ResponsesFor(QcmResponses) : LoginQcmReturn(t, r)
    \/ \E t \in Tasks, a \in Answers : SerialCall(t) /\ SubmitMfaCall(t, a)
    \/ \E t \in Tasks :
           /\ task[t].pc = "mfa_post"
           /\ \E r \in ResponsesFor(AnswerResponses) : MfaPostReturn(t, r)
    \/ \E t \in Tasks :
           /\ task[t].pc = "relogin_gtk"
           /\ \E r \in ResponsesFor(GtkResponses) : ReloginGtkReturn(t, r)
    \/ \E t \in Tasks :
           /\ task[t].pc = "relogin_post"
           /\ \E r \in ResponsesFor(LoginResponses) : ReloginPostReturn(t, r)
    \/ \E t \in Tasks, u \in Urls : SerialCall(t) /\ RequestCall(t, u)
    \/ \E t \in Tasks :
           /\ task[t].pc = "request_post"
           /\ \E r \in ResponsesFor(RequestResponses) : RequestReturn(t, r)
    \/ Close
    \/ \E t \in Tasks : Finish(t)

Spec == Init /\ [][Next]_vars

(***************************************************************************)
(* Specification of concurrent callers: any task may call request while    *)
(* other calls are in flight; one login at a time runs among them.  The    *)
(* server answers from small sets, so that every interleaving of the       *)
(* tasks is explored.                                                      *)
(***************************************************************************)
\* the credentials of the logins
ConcCredentials == { << <<"a">>, <<"p">> >> }

\* the GTK fetch gives a cookie
ConcGtkResponses == { [BaseResponse EXCEPT !.cookie = "g1"] }

\* the credential POST is refused (code 505) or gives a student session with
\* a bearer token in the x-token header
ConcLoginResponses ==
    { [BaseResponse EXCEPT !.code = 505] }
    \cup { [BaseResponse EXCEPT !.xtoken = xt, !.code = 200,
                                !.accounts = << [id |-> 12345,
                                                 typeCompte |-> "E",
                                                 eleves |-> <<>>] >>] :
             xt \in Tokens }

\* a dispatcher request is answered with a payload, with an expired-token
\* code and a new x-token header, or not at all
ConcRequestResponses ==
    { [BaseResponse EXCEPT !.code = 200],
      [BaseResponse EXCEPT !.code = 520, !.xtoken = "t2"],
      TransportFailure }

\* no login is in flight
NoLoginInFlight == \A u \in Tasks : task[u].op # "login"

ConcNext ==
    \/ \E t \in Tasks, c \in ConcCredentials :
           NoLoginInFlight /\ LoginCall(t, c[1], c[2])
    \/ \E t \in Tasks :
           /\ task[t].pc = "login_gtk"
           /\ \E r \in ConcGtkResponses : LoginGtkReturn(t, r)
    \/ \E t \in Tasks :
           /\ task[t].pc = "login_post"
           /\ \E r \in ConcLoginResponses : LoginPostReturn(t, r)
    \/ \E t \in Tasks : RequestCall(t, "notes.awp")
    \/ \E t \in Tasks :
           /\ task[t].pc = "request_post"
           /\ \E r \in ConcRequestResponses : RequestReturn(t, r)
    \/ \E t \in Tasks : Finish(t)

ConcSpec == Init /\ [][ConcNext]_vars

(***************************************************************************)
(* Specification of the encoder: one login is called with a credential     *)
(* string over the characters _encode_string escapes and two ordinary      *)
(* ones, as username and as password, and its POST is refused.             *)
(***************************************************************************)
EncAlphabet == {"%", "&", "+", "\\", "\"", "2", "6"}
EncStrings == SeqsUpTo(EncAlphabet, MaxLen)

\* the credential POST is refused
EncLoginResponses == { [BaseResponse EXCEPT !.code = 505] }

EncNext ==
    \/ \E t \in Tasks, string \in EncStrings :
           SerialCall(t) /\ ~hist.loginCalled /\ LoginCall(t, string, string)
    \/ \E t \in Tasks :
           /\ task[t].pc = "login_gtk"
           /\ \E r \in ConcGtkResponses : LoginGtkReturn(t, r)
    \/ \E t \in Tasks :
           /\ task[t].pc = "login_post"
           /\ \E r \in EncLoginResponses : LoginPostReturn(t, r)
    \/ \E t \in Tasks : Finish(t)

EncSpec == Init /\ [][EncNext]_vars

(***************************************************************************)
(* Specification of the grades accessors: the caller serializes calls of   *)
(* the two accessors, with and without a quarter, on payloads of notes and *)
(* periods.                                                                *)
(***************************************************************************)
\* the quarter argument: left out, or 0, 1, 2, 12
Quarters == { <<>>, <<0>>, <<1>>, <<2>>, <<12>> }

\* entries of data["periodes"]; two of them have the same idPeriode
GradesPeriods ==
    { [idPeriode |-> <<"A", "0", "0", "1">>, nomPeriode |-> "Trimestre 1"],
      [idPeriode |-> <<"A", "0", "0", "1">>, nomPeriode |-> "Releve 1"],
      [idPeriode |-> <<"A", "0", "0", "2">>, nomPeriode |-> "Trimestre 2"],
      [idPeriode |-> <<"A", "0", "0", "0">>, nomPeriode |-> "Examen"],
      [idPeriode |-> <<"A", "0", "0", "1", "2">>, nomPeriode |-> "Annee"] }

\* values of data["notes"]
GradesNotes == { <<>>, << "FRAN" >> }

\* responses to the request of an accessor: a payload, an expired token, an
\* HTTP error, a transport failure
GradesResponses ==
    { [BaseResponse EXCEPT !.code = 200, !.notes = n, !.periodes = ps] :
        n \in GradesNotes, ps \in SeqsUpTo(GradesPeriods, MaxPeriods) }
    \cup { [BaseResponse EXCEPT !.code = 520],
           [BaseResponse EXCEPT !.status = 500],
           TransportFailure }

GradesNext ==
    \/ \E t \in Tasks, a \in GradesAccessors, q \in Quarters :
           SerialCall(t) /\ GetGradesCall(t, a, q)
    \/ \E t \in Tasks :
           /\ task[t].pc = "grades_post"
           /\ \E r \in GradesResponses : GetGradesReturn(t, r)
    \/ \E t \in Tasks : Finish(t)

GradesSpec == Init /\ [][GradesNext]_vars

(***************************************************************************)
(* Specification of racing logins: any idle task may call login while the  *)
(* logins of other tasks are in flight; submit_mfa is called when all      *)
(* calls have returned.  The server asks every login for a second factor   *)
(* or refuses it, and accepts every answer.                                *)
(***************************************************************************)
\* the credential POST is answered with an MFA demand or refused; the
\* re-login gets a student session
RaceLoginResponses ==
    { [BaseResponse EXCEPT !.code = 250], [BaseResponse EXCEPT !.code = 505] }
RaceReloginResponses ==
    { [BaseResponse EXCEPT !.code = 200, !.token = "t1",
                           !.accounts = << [id |-> 12345, typeCompte |-> "E",
                                            eleves |-> <<>>] >>] }

\* the challenge of the tests, and the device tokens an accepted answer gets
RaceQcmResponses ==
    { [BaseResponse EXCEPT !.code = 200, !.question = EncWhatCity,
                           !.propositions = <<EncParis, EncLyon>>] }
RaceAnswerResponses ==
    { [BaseResponse EXCEPT !.code = 200, !.cn = "cn1", !.cv = "cv1"] }

\* no submit_mfa is in flight
NoMfaInFlight == \A u \in Tasks : task[u].op # "submit_mfa"

RaceNext ==
    \/ \E t \in Tasks, c \in Credentials :
           NoMfaInFlight /\ LoginCall(t, c[1], c[2])
    \/ \E t \in Tasks :
           /\ task[t].pc = "login_gtk"
           /\ \E r \in ConcGtkResponses : LoginGtkReturn(t, r)
    \/ \E t \in Tasks :
           /\ task[t].pc = "login_post"
           /\ \E r \in RaceLoginResponses : LoginPostReturn(t, r)
    \/ \E t \in Tasks :
           /\ task[t].pc = "login_qcm"
           /\ \E r \in RaceQcmResponses : LoginQcmReturn(t, r)
    \/ \E t \in Tasks : SerialCall(t) /\ SubmitMfaCall(t, TextParis)
    \/ \E t \in Tasks :
           /\ task[t].pc = "mfa_post"
           /\ \E r \in RaceAnswerResponses : MfaPostReturn(t, r)
    \/ \E t \in Tasks :
           /\ task[t].pc = "relogin_gtk"
           /\ \E r \in ConcGtkResponses : ReloginGtkReturn(t, r)
    \/ \E t \in Tasks :
           /\ task[t].pc = "relogin_post"
           /\ \E r \in RaceReloginResponses : ReloginPostReturn(t, r)
    \/ \E t \in Tasks : Finish(t)

RaceSpec == Init /\ [][RaceNext]_vars

(***************************************************************************)
(* Properties                                                              *)
(***************************************************************************)
IsDone(t) == task[t].pc = "done"
LoginDone(t) == IsDone(t) /\ task[t].op = "login"
ReturnedSession(t) == task[t].result.kind \in {"Student", "Family"}
RaisedError(t) == task[t].result.kind = "error"
RaisedMfaRequired(t) ==
    RaisedError(t) /\ IsInstance(task[t].result.cls, "MFARequiredError")
LastSent(t) ==
    IF task[t].log = <<>> THEN "none" ELSE task[t].log[Len(task[t].log)]

\* C1: every credential POST to the login endpoint (by login and by the
\* re-login of submit_mfa) directly follows a GTK fetch of the same
\* operation, and the x-gtk header it is sent with is the cookie that very
\* fetch returned, or no header at all when the fetch gave none.
C1_FreshGtkBeforeCredentials ==
    \A t \in Tasks :
        /\ \A i \in 1..Len(task[t].log) :
               task[t].log[i] \in {"login", "relogin"} =>
                   i > 1 /\ task[t].log[i - 1] = "gtk"
        /\ task[t].pc \in {"login_post", "relogin_post"} /\ task[t].req.sent =>
               /\ LastSent(t) = task[t].req.kind
               /\ task[t].req.kind \in {"login", "relogin"}
               /\ task[t].req.url = LoginUrl
               /\ task[t].req.xgtk =
                      IF task[t].resp.exc = None /\ task[t].resp.cookie # None
                      THEN task[t].resp.cookie ELSE None

\* C1 witness: a re-login POST is in flight with the GTK value of its own
\* fetch, after an earlier login attempt on the same client
C1_Witness ==
    \E t \in Tasks :
        /\ task[t].pc = "relogin_post" /\ task[t].req.sent
        /\ task[t].req.xgtk = "g2" /\ task[t].resp.cookie = "g2"
        /\ hist.loginCalled

\* C2 (as claimed): at most one of x-gtk and x-token is present in the
\* headers applied to requests.
C2_AtMostOneAuthHeader ==
    /\ ~(headers.gtk # None /\ headers.tok # None)
    /\ ~(client_headers.gtk # None /\ client_headers.tok # None)

\* C3 (as claimed): a login on a client without a token that ends in an
\* error other than MFA-required leaves the token and the x-token header
\* absent.
C3_FailedLoginLeavesNoToken ==
    \A t \in Tasks :
        /\ LoginDone(t) /\ task[t].tokenAtCall = None
        /\ RaisedError(t) /\ ~RaisedMfaRequired(t)
        => /\ token = None
           /\ headers.tok = None
           /\ client_headers.tok = None

\* C4 (as claimed): once a token is stored, no step of any call makes the
\* stored token absent again.
C4_TokenNeverCleared == [][token # None => token' # None]_vars

C6_StudentLoginTokenAndId ==
    \A t \in Tasks :
        LoginDone(t) /\ task[t].result.kind = "Student"
            => /\ token = task[t].resp.token
               /\ task[t].result.id = task[t].resp.accounts[1].id

\* C6 (amended): the same, for a response whose body carries a non-empty
\* token field.
C6_StudentLoginBodyTokenAndId ==
    \A t \in Tasks :
        /\ LoginDone(t) /\ task[t].result.kind = "Student"
        /\ task[t].resp.token \notin {None, ""}
        => /\ token = task[t].resp.token
           /\ task[t].result.id = task[t].resp.accounts[1].id

\* C6 witness: a student login succeeded on a two-account payload whose body
\* token differs from its x-token header
C6_Witness ==
    \E t \in Tasks :
        /\ LoginDone(t) /\ task[t].result.kind = "Student"
        /\ task[t].resp.token = "t2" /\ task[t].resp.xtoken = "t1"
        /\ token = "t2"
        /\ Len(task[t].resp.accounts) = 2
        /\ task[t].resp.accounts[2].id # task[t].result.id
        /\ task[t].result.id = 12346

\* the challenge fetch of a finished login returned a challenge
ChallengeFetched(t) ==
    /\ LastSent(t) = "qcm"
    /\ task[t].resp.exc = None /\ task[t].resp.json /\ task[t].resp.code = 200

\* the question and every proposition of the fetched challenge are base64
\* of UTF-8 text
ChallengeDecodable(t) ==
    /\ DecodedTexts[task[t].resp.question].ok
    /\ \A i \in 1..Len(task[t].resp.propositions) :
           DecodedTexts[task[t].resp.propositions[i]].ok

LoginGot250(t) ==
    task[t].login_reply.status = 200 /\ task[t].login_reply.code = 250

ReferenceText(enc) ==
    CASE enc = EncParis -> TextParis
      [] enc = EncLyon -> TextLyon
      [] enc = EncWhatCity -> TextWhatCity
      [] OTHER -> <<0>>

\* C8: the MFA-required error carries the decoded question and one decoded
\* choice per encoded choice of the challenge, in the order of the response.
C8_ChallengeCarriedInOrder ==
    \A t \in Tasks :
        LoginDone(t) /\ RaisedMfaRequired(t) =>
            /\ task[t].result.question = ReferenceText(task[t].resp.question)
            /\ Len(task[t].result.propositions) = Len(task[t].resp.propositions)
            /\ \A i \in 1..Len(task[t].resp.propositions) :
                   task[t].result.propositions[i] =
                       ReferenceText(task[t].resp.propositions[i])

\* C8 witness: the challenge "What city?" with the choices Paris and Lyon
C8_Witness ==
    \E t \in Tasks :
        /\ LoginDone(t) /\ RaisedMfaRequired(t)
        /\ task[t].resp.propositions = <<EncParis, EncLyon>>
        /\ task[t].result.question = TextWhatCity
        /\ task[t].result.propositions = <<TextParis, TextLyon>>

\* C9 (as claimed): submit_mfa on a client on which login was never called
\* fails with the credentials-lost error and sends no request to the login
\* endpoint.
C9_SubmitWithoutLogin ==
    \A t \in Tasks :
        IsDone(t) /\ task[t].op = "submit_mfa" /\ ~task[t].loginCalledAtCall
            => /\ task[t].result =
                      Error("ApiError", "Credentials lost during MFA flow")
               /\ \A i \in 1..Len(task[t].log) :
                      task[t].log[i] \notin {"gtk", "login", "relogin"}

\* C10: with serialized calls, the re-login POST of submit_mfa carries the
\* username and password of the most recent login call, encoded as the
\* credential POST of that login carried them.
C10_ReloginUsesLoginCredentials ==
    \A t \in Tasks :
        task[t].req.kind = "relogin" =>
            /\ task[t].req.user = hist.sent_user
            /\ task[t].req.pass = hist.sent_pass
            /\ task[t].req.user = EncodeString(hist.username)
            /\ task[t].req.pass = EncodeString(hist.password)
            /\ hist.loginCalled

\* C10 witness: a re-login POST is sent with the escaped credentials of the
\* login call before it
C10_Witness ==
    \E t \in Tasks :
        /\ task[t].pc = "relogin_post" /\ task[t].req.sent
        /\ hist.username = <<"b", "&">>
        /\ task[t].req.user = <<"b", "%", "2", "6">>
        /\ task[t].req.pass = <<"\\", "\\", "\\", "\\", "\\", "\\", "\"">>

\* C11: when the answer submission returned (cn, cv), the re-login request
\* that follows carries exactly that cn and that cv, as the top-level fields
\* of its body and as the single entry of its "fa" array.
C11_ReloginCarriesDeviceTokens ==
    [][\A t \in Tasks :
          task'[t].req.kind = "relogin" /\ task[t].req.kind # "relogin" =>
              /\ task[t].pc = "relogin_gtk"
              /\ task[t].resp.exc = None /\ task[t].resp.code = 200
              /\ task'[t].req.cn = task[t].resp.cn
              /\ task'[t].req.cv = task[t].resp.cv
              /\ task'[t].req.fa =
                     << [cn |-> task[t].resp.cn, cv |-> task[t].resp.cv] >>]_vars

\* C11 witness: a re-login POST is sent with the pair (cn2, cv1) of the
\* answer response, at the top level and in the array
C11_Witness ==
    \E t \in Tasks :
        /\ task[t].pc = "relogin_post" /\ task[t].req.sent
        /\ task[t].cn = "cn2" /\ task[t].cv = "cv1"
        /\ task[t].req.cn = "cn2" /\ task[t].req.cv = "cv1"
        /\ task[t].req.fa = << [cn |-> "cn2", cv |-> "cv1"] >>

\* C12 (as claimed): after submit_mfa returned a session, the pair (cn, cv)
\* of the answer response is stored on the client, both values present.
C12_DeviceTokensStored ==
    \A t \in Tasks :
        IsDone(t) /\ task[t].op = "submit_mfa" /\ ReturnedSession(t) =>
            /\ ClientCn = task[t].cn /\ ClientCv = task[t].cv
            /\ Truthy(ClientCn) /\ Truthy(ClientCv)

\* C13: when the answer response lacks cn or lacks cv (missing or empty),
\* submit_mfa fails with an ApiError of the MFA verification and has sent
\* nothing but the answer; a GTK fetch of submit_mfa and a re-login are only
\* ever sent with both cn and cv present.
C13_NoReloginWithoutDeviceTokens ==
    \A t \in Tasks :
        /\ /\ IsDone(t) /\ task[t].op = "submit_mfa"
           /\ LastSent(t) = "answer"
           /\ task[t].resp.exc = None /\ task[t].resp.json
           /\ ~Truthy(task[t].resp.cn) \/ ~Truthy(task[t].resp.cv)
           => /\ RaisedError(t) /\ task[t].result.cls = "ApiError"
              /\ task[t].result.msg \in
                     {"MFA Failed", "MFA success but CN/CV missing"}
              /\ task[t].log = <<"answer">>
        /\ task[t].req.kind = "relogin" =>
               Truthy(task[t].req.cn) /\ Truthy(task[t].req.cv)
        /\ task[t].op = "submit_mfa"
               /\ (\E i \in 1..Len(task[t].log) : task[t].log[i] = "gtk")
           => Truthy(task[t].cn) /\ Truthy(task[t].cv)

\* C13 witness: the answer is accepted (code 200) with a cn and an empty cv,
\* and submit_mfa has failed after the answer request alone
C13_Witness ==
    \E t \in Tasks :
        /\ IsDone(t) /\ task[t].op = "submit_mfa"
        /\ task[t].resp.exc = None /\ task[t].resp.code = 200
        /\ task[t].resp.cn = "cn1" /\ task[t].resp.cv = ""
        /\ task[t].result =
               Error("ApiError", "MFA success but CN/CV missing")
        /\ task[t].log = <<"answer">>

\* the coroutine of t has ended in _finalize_login: login after a credential
\* response with status 200 and code 200, or submit_mfa after a re-login
\* response with code 200
Finalized(t) ==
    /\ IsDone(t)
    /\ task[t].resp.exc = None /\ task[t].resp.json /\ task[t].resp.code = 200
    /\ \/ task[t].op = "login" /\ LastSent(t) = "login"
          /\ task[t].resp.status = 200
       \/ task[t].op = "submit_mfa" /\ LastSent(t) = "relogin"

\* C14: account resolution is decided by the first entry of the account list
\* alone: type "E" gives a Student with the id of that entry, "1" or
\* "Famille" a Family, any other type the unknown-account-type error, and an
\* empty or missing list the no-accounts error.
C14_FirstAccountDecides ==
    \A t \in Tasks :
        Finalized(t) =>
            LET accounts == task[t].resp.accounts
                res == task[t].result
            IN  IF Len(accounts) = 0
                THEN res = Error("ApiError", "No accounts found")
                ELSE /\ accounts[1].typeCompte = "E" =>
                            res.kind = "Student" /\ res.id = accounts[1].id
                     /\ accounts[1].typeCompte \in {"1", "Famille"} =>
                            res.kind = "Family"
                     /\ accounts[1].typeCompte \notin {"E", "1", "Famille"} =>
                            res = Error("ApiError", "Unknown account type")

\* C14 witness: a login resolved to a Family on a first entry of type "1"
\* that is followed by an entry of an unknown type
C14_Witness ==
    \E t \in Tasks :
        /\ Finalized(t) /\ task[t].op = "login"
        /\ Len(task[t].resp.accounts) = 2
        /\ task[t].resp.accounts[1].typeCompte = "1"
        /\ task[t].resp.accounts[2].typeCompte = "P"
        /\ task[t].result.kind = "Family"

Classified(t) ==
    /\ IsDone(t)
    /\ \/ task[t].op = "login" /\ LastSent(t) = "login"
       \/ task[t].op = "request" /\ LastSent(t) = "request"
    /\ task[t].resp.exc = None
    /\ task[t].resp.status # 200 \/ task[t].resp.json

\* C16: in login and in request alike, every status and code of a response
\* ends the call with one outcome, a payload or an error of the library, and
\* status 200 with a code outside {200, 250, 505, 520, 525} gives the generic
\* API error carrying that code and the message of the response.
C16_ClassificationTotal ==
    \A t \in Tasks :
        Classified(t) =>
            /\ \/ ReturnedSession(t)
               \/ task[t].result.kind = "json"
               \/ /\ RaisedError(t)
                  /\ IsInstance(task[t].result.cls, "EcoleDirecteError")
            /\ /\ task[t].resp.status = 200
               /\ task[t].resp.code \notin {200, 250, 505, 520, 525}
               => /\ task[t].result.kind = "error"
                  /\ task[t].result.cls = "ApiError"
                  /\ task[t].result.msg = "API Error code"
                  /\ task[t].result.code = task[t].resp.code
                  /\ task[t].result.message = task[t].resp.message

\* C16 witness: login ends on status 200 with code 517 and message "m1"
C16_Witness ==
    \E t \in Tasks :
        /\ Classified(t) /\ task[t].op = "login"
        /\ task[t].resp.status = 200 /\ task[t].resp.code = 517
        /\ task[t].resp.message = "m1"
        /\ task[t].result.code = 517 /\ task[t].result.message = "m1"

\* C17 (as claimed): in every operation that reads a response, a response
\* whose HTTP status is not 200 never produces a success: no session, no
\* payload, no challenge, no accepted answer.
C17_StatusBeforeCode ==
    \A t \in Tasks :
        /\ IsDone(t) /\ task[t].resp.exc = None /\ task[t].resp.status # 200
           /\ LastSent(t) \in {"login", "qcm", "answer", "relogin", "request"}
           => /\ ~ReturnedSession(t)
              /\ task[t].result.kind # "json"
              /\ ~RaisedMfaRequired(t)
        /\ task[t].pc = "relogin_gtk" => task[t].resp.status = 200

\* C18 (as claimed): in login and in request, a response of a documented
\* failure class (an HTTP status other than 200, code 505, code 520 or 525)
\* ends the call with an error kind of its own, which is not the kind of the
\* generic API error.
C18_OwnErrorKinds ==
    \A t \in Tasks :
        /\ Classified(t)
        /\ \/ task[t].resp.status # 200
           \/ task[t].resp.json /\ task[t].resp.code \in {505, 520, 525}
        => /\ RaisedError(t)
           /\ IsInstance(task[t].result.cls, "EcoleDirecteError")
           /\ task[t].result.cls # "ApiError"

\* C19 (as claimed): a response whose body is not JSON ends every operation
\* with the malformed-response error of the library, whatever its HTTP
\* status; no exception of another origin escapes.
C19_MalformedResponse ==
    \A t \in Tasks :
        /\ IsDone(t) /\ task[t].resp.exc = None /\ ~task[t].resp.json
        /\ LastSent(t) \in {"login", "qcm", "answer", "relogin", "request"}
        => /\ RaisedError(t)
           /\ IsInstance(task[t].result.cls, "EcoleDirecteError")
           /\ task[t].result.msg # "HTTP Error"

\* C20: request never fetches a challenge and never raises MFARequiredError;
\* on status 200 with code 250 it fails with the generic API error carrying
\* the code 250.
C20_RequestNeverStartsMfa ==
    \A t \in Tasks :
        task[t].op = "request" =>
            /\ \A i \in 1..Len(task[t].log) : task[t].log[i] = "request"
            /\ ~RaisedMfaRequired(t)
            /\ /\ IsDone(t) /\ task[t].resp.exc = None
               /\ task[t].resp.status = 200 /\ task[t].resp.json
               /\ task[t].resp.code = 250
               => /\ task[t].result.kind = "error"
                  /\ task[t].result.cls = "ApiError"
                  /\ task[t].result.msg = "API Error code"
                  /\ task[t].result.code = 250

\* C20 witness: a request ended on status 200 with code 250
C20_Witness ==
    \E t \in Tasks :
        /\ IsDone(t) /\ task[t].op = "request"
        /\ task[t].resp.status = 200 /\ task[t].resp.code = 250
        /\ task[t].result.cls = "ApiError" /\ task[t].result.code = 250
        /\ task[t].log = <<"request">>

\* C21: whatever the interleaving of concurrent request calls (and of a
\* login among them), every request carries in its body the token the client
\* stored at the moment the call was issued, or no token when none was
\* stored, and no step of a request call changes the stored token or the
\* headers the other calls are sent with.
C21_RequestCarriesTokenAtCall ==
    [][/\ \A t \in Tasks :
              task'[t].op = "request" =>
                  /\ task'[t].req.kind = "request"
                  /\ task'[t].req.token =
                         IF Truthy(task'[t].tokenAtCall)
                         THEN task'[t].tokenAtCall ELSE None
       /\ (\E t \in Tasks :
              /\ task'[t] # task[t]
              /\ task[t].op = "request" \/ task'[t].op = "request")
          => /\ token' = token
             /\ headers' = headers
             /\ client_headers' = client_headers]_vars

\* C21 witness: two request calls are in flight at once, one issued while the
\* token was t1 and one issued after a login rotated it to t2
C21_Witness ==
    \E t, u \in Tasks :
        /\ task[t].pc = "request_post" /\ task[u].pc = "request_post"
        /\ task[t].req.token = "t1" /\ task[u].req.token = "t2"
        /\ token = "t2"

\* C22 (as claimed): once an operation has processed a response that carries
\* an x-token header (the response to a credential POST, a challenge fetch,
\* an answer, a re-login or a dispatcher request), the stored token is that
\* header value and requests are sent with it.
C22_TokenRotatesOnEveryResponse ==
    \A t \in Tasks :
        /\ task[t].pc \in {"done", "login_qcm", "relogin_gtk"}
        /\ task[t].resp.exc = None /\ task[t].resp.xtoken # None
        => /\ token = task[t].resp.xtoken
           /\ client_headers.tok = task[t].resp.xtoken

\* C23: when the response to the challenge fetch carries the x-token value
\* that the response to the credential POST before it carried, the stored
\* token and both header maps after the second response are those after the
\* first.
C23_TokenUpdateIdempotent ==
    [][\A t \in Tasks :
          /\ task[t].pc = "login_qcm" /\ task'[t].pc = "done"
          /\ task[t].resp.exc = None /\ task'[t].resp.exc = None
          /\ task[t].resp.xtoken # None
          /\ task'[t].resp.xtoken = task[t].resp.xtoken
          => /\ token' = token
             /\ headers' = headers
             /\ client_headers' = client_headers]_vars

\* C23 witness: on a fresh client the credential response and the fetched
\* challenge both carried x-token t1, which is the token and the header
C23_Witness ==
    \E t \in Tasks :
        /\ LoginDone(t) /\ LastSent(t) = "qcm"
        /\ task[t].tokenAtCall = None /\ task[t].req.xtoken = "t1"
        /\ task[t].resp.exc = None /\ task[t].resp.code = 200
        /\ task[t].resp.xtoken = "t1"
        /\ token = "t1" /\ headers.tok = "t1" /\ client_headers.tok = "t1"

\* the GTK fetch gave nothing: it raised, or its response has no GTK cookie
GtkMissing(r) == r.exc # None \/ ~Truthy(r.cookie)

\* C24: the GTK fetch never ends a call.  When it returns, login sends its
\* credential POST and submit_mfa, on a client that holds the credentials of
\* a login, its re-login POST; when the fetch raised or gave no cookie, that
\* POST is sent without an x-gtk header, neither header map has one, and
\* nothing is raised.
C24_GtkBestEffort ==
    [][\A t \in Tasks :
          /\ task[t].pc = "login_gtk" /\ task'[t].pc # "login_gtk" =>
                 /\ task'[t].pc = "login_post"
                 /\ task'[t].req.kind = "login"
                 /\ task'[t].result = NoResult
                 /\ GtkMissing(task'[t].resp) =>
                        /\ task'[t].req.xgtk = None
                        /\ headers'.gtk = None /\ client_headers'.gtk = None
          /\ /\ task[t].pc = "relogin_gtk" /\ task'[t].pc # "relogin_gtk"
             /\ temp_credentials # NoAttr
             => /\ task'[t].pc = "relogin_post"
                /\ task'[t].req.kind = "relogin"
                /\ task'[t].result = NoResult
                /\ GtkMissing(task'[t].resp) =>
                       /\ task'[t].req.xgtk = None
                       /\ headers'.gtk = None /\ client_headers'.gtk = None]_vars

\* C24 witness: the GTK fetch of a re-login failed at transport level and the
\* re-login POST is sent without x-gtk, on a client that holds a token
C24_Witness ==
    \E t \in Tasks :
        /\ task[t].pc = "relogin_post" /\ task[t].req.sent
        /\ task[t].resp.exc = "httpx.RequestError"
        /\ task[t].req.kind = "relogin" /\ task[t].req.xgtk = None
        /\ task[t].req.xtoken # None

\* C25 (as claimed): a transport failure of a request other than the GTK
\* fetch ends login, submit_mfa and request with the network error of the
\* library (ApiError "Request failed"), never with the raw exception of the
\* transport.
C25_TransportFailureSurfaced ==
    \A t \in Tasks :
        /\ IsDone(t) /\ task[t].resp.exc = "httpx.RequestError"
        /\ LastSent(t) \in {"login", "qcm", "answer", "relogin", "request"}
        => task[t].result = Error("ApiError", "Request failed")

\* the requests an operation may send, in the order it sends them
OpSequence(op) ==
    IF op = "login" THEN <<"gtk", "login", "qcm">>
    ELSE IF op = "submit_mfa" THEN <<"answer", "gtk", "relogin">>
    ELSE IF op = "request" THEN <<"request">>
    ELSE <<>>

IsPrefix(a, b) == Len(a) <= Len(b) /\ \A i \in 1..Len(a) : a[i] = b[i]

\* how far a coroutine is: the number of requests it has handed to the
\* transport, 4 when it has ended
PcRank(pc) ==
    IF pc = "idle" THEN 0
    ELSE IF pc \in {"login_gtk", "mfa_post", "request_post"} THEN 1
    ELSE IF pc \in {"login_post", "relogin_gtk"} THEN 2
    ELSE IF pc \in {"login_qcm", "relogin_post"} THEN 3
    ELSE 4

\* C26: no request is sent twice and every operation ends after at most
\* three requests: the requests a call has sent are a prefix of gtk, login,
\* qcm for login, of answer, gtk, re-login for submit_mfa, and the one
\* request of request; every returning request either ends the call or
\* makes it send the next request of that order, a request other than the GTK
\* fetch whose transport call raised ends the call with an error, and
\* an error is only ever the end of a call.
C26_NoRetryAndTermination ==
    [][\A t \in Tasks :
          /\ IsPrefix(task'[t].log, OpSequence(task'[t].op))
          /\ task'[t].pc # task[t].pc =>
                 \/ PcRank(task'[t].pc) > PcRank(task[t].pc)
                 \/ task[t].pc = "done" /\ task'[t].pc = "idle"
          /\ task'[t].pc \notin {"idle", task[t].pc} =>
                 Len(task'[t].log) <= Len(task[t].log) + 1
          /\ /\ task[t].pc \in {"login_post", "login_qcm", "mfa_post",
                                "relogin_post", "request_post"}
             /\ task'[t].pc # task[t].pc
             /\ task'[t].resp.exc # None
             => /\ task'[t].pc = "done"
                /\ task'[t].result.kind = "error"
          /\ task'[t].result.kind = "error" => task'[t].pc = "done"
          /\ task'[t].pc = "request_post" /\ task'[t].req.sent =>
                 task'[t].log = <<"request">>]_vars

\* C26 witness: submit_mfa returned a session after its three requests
C26_Witness ==
    \E t \in Tasks :
        /\ IsDone(t) /\ task[t].op = "submit_mfa" /\ ReturnedSession(t)
        /\ task[t].log = <<"answer", "gtk", "relogin">>

\* the escaping rules of the encoder undone, last rule first
DecodeString(string) ==
    LET s5 == Replace(string, <<"\\", "\"">>, <<"\"">>)
        s4 == Replace(s5, <<"\\", "\\", "\\", "\\">>, <<"\\", "\\">>)
        s3 == Replace(s4, <<"\\", "\\", "\\">>, <<"\\">>)
        s2 == Replace(s3, <<"%", "2", "B">>, <<"+">>)
        s1 == Replace(s2, <<"%", "2", "6">>, <<"&">>)
    IN  Replace(s1, <<"%", "2", "5">>, <<"%">>)

\* the number of occurrences of the character c in s
RECURSIVE Count(_, _)
Count(c, s) ==
    IF s = <<>> THEN 0
    ELSE (IF Head(s) = c THEN 1 ELSE 0) + Count(c, Tail(s))

\* C27: the encoder is reversible: undoing its escaping rules on the
\* username and the password a credential POST carries gives back the
\* strings login was called with, so that no two strings share an encoding.
C27_EncoderReversible ==
    \A t \in Tasks :
        task[t].req.kind = "login" =>
            /\ DecodeString(task[t].req.user) = task[t].username
            /\ DecodeString(task[t].req.pass) = task[t].password

\* C27 witness: the string backslash, double quote, percent was sent as five
\* backslashes, an escaped double quote and %25
C27_Witness ==
    \E t \in Tasks :
        /\ task[t].pc = "login_post" /\ task[t].req.sent
        /\ task[t].username = <<"\\", "\"", "%">>
        /\ task[t].req.user =
               <<"\\", "\\", "\\", "\\", "\\", "\\", "\"", "%", "2", "5">>

\* C28 (as claimed): every backslash of the input becomes exactly four
\* backslashes of the output (a double quote adds the one that escapes it),
\* and the output has one percent sign for each %, & and + of the input.
C28_BackslashQuadrupled ==
    \A t \in Tasks :
        task[t].req.kind = "login" =>
            /\ Count("\\", task[t].req.user) =
                   4 * Count("\\", task[t].username)
                       + Count("\"", task[t].username)
            /\ Count("%", task[t].req.user) =
                   Count("%", task[t].username)
                       + Count("&", task[t].username)
                       + Count("+", task[t].username)

\* C29 (as claimed): a login that is given a device-token pair sends a
\* credential POST whose body carries the pair, at the top level and in the
\* "fa" array; a login that is given none sends a body without those fields.
C29_LoginCarriesDeviceTokens ==
    \A t \in Tasks :
        task[t].op = "login" =>
            IF Truthy(task[t].cn) /\ Truthy(task[t].cv)
            THEN /\ task[t].result.cls # "TypeError"
                 /\ task[t].req.kind = "login" =>
                        /\ task[t].req.cn = task[t].cn
                        /\ task[t].req.cv = task[t].cv
                        /\ task[t].req.fa =
                               << [cn |-> task[t].cn, cv |-> task[t].cv] >>
            ELSE task[t].req.kind = "login" =>
                     /\ task[t].req.cn = None /\ task[t].req.cv = None
                     /\ task[t].req.fa = <<>>

\* C30 (as claimed, on a client that was given an MFA callback when it was
\* built): a login whose credential response has code 250 and whose challenge
\* is fetched and decoded hands the challenge to the callback, posts the
\* answer and does not raise MFARequiredError.
C30_MfaCallbackAnswers ==
    \A t \in Tasks :
        /\ LoginDone(t) /\ LoginGot250(t)
        /\ ChallengeFetched(t) /\ ChallengeDecodable(t)
        => /\ ClientMfaCallback # NoAttr
           /\ ~RaisedMfaRequired(t)
           /\ \E i \in 1..Len(task[t].log) : task[t].log[i] = "answer"

\* C31: a grades accessor (Student.get_grades or GradesManager.get) issues
\* one dispatcher request and, whenever a quarter q is supplied, returns the
\* first period of the payload whose idPeriode is "A00" followed by q, or an
\* empty result when no period matches; it returns the notes list only when
\* no quarter is supplied.
C31_GradesByQuarter ==
    \A t \in Tasks :
        (IsDone(t) /\ task[t].op \in GradesAccessors) =>
            /\ task[t].log = << "request" >>
            /\ task[t].result.kind = "grades" =>
                 LET ps == task[t].resp.periodes
                     quarter == task[t].quarter
                     value == task[t].result.value
                 IN  IF quarter = <<>>
                     THEN value = NotesValue(task[t].resp.notes)
                     ELSE \/ /\ value = EmptyDict
                             /\ \A i \in 1..Len(ps) :
                                    ps[i].idPeriode # PeriodId(quarter[1])
                          \/ \E i \in 1..Len(ps) :
                                /\ value = PeriodValue(ps[i])
                                /\ ps[i].idPeriode = PeriodId(quarter[1])
                                /\ \A j \in 1..(i - 1) :
                                       ps[j].idPeriode # PeriodId(quarter[1])

\* C32: the cached username and password are held only while an MFA flow is
\* in progress: when a login or a submit_mfa call has completed with a
\* session (and no later login call has replaced them), the client holds no
\* credentials any more.
C32_CredentialsClearedAfterLogin ==
    \A t \in Tasks :
        (/\ IsDone(t)
         /\ task[t].op \in {"login", "submit_mfa"}
         /\ ReturnedSession(t))
            => temp_credentials = NoAttr

\* C33: an MFA challenge is consumed exactly once: when the call the caller
\* made last was a submit_mfa that completed the login, a further
\* submit_mfa (no login that raised MFA-required lies in between) posts no
\* answer and starts no re-login.
C33_ChallengeConsumedOnce ==
    [][\A t \in Tasks :
          (/\ task[t].pc = "idle"
           /\ task[t].completed_mfa
           /\ task'[t].op = "submit_mfa")
              => /\ ~task'[t].req.sent
                 /\ task'[t].log = <<>>
                 /\ task'[t].pc = "done"]_vars

\* C34: concurrent logins race on the credential cache: the re-login of
\* submit_mfa carries the username and password of the login that cached
\* its credentials last, also when the challenge being answered went to
\* another login that was in flight at the same time.
C34_ReloginUsesLastCachedCredentials ==
    [][\A t \in Tasks :
          (task[t].pc = "relogin_gtk" /\ task'[t].pc = "relogin_post")
              => /\ task'[t].req.user = hist.sent_user
                 /\ task'[t].req.pass = hist.sent_pass
                 /\ temp_credentials # NoAttr
                 /\ task'[t].req.user = EncodeString(temp_credentials[1])]_vars

\* submit_mfa answers the challenge of the first login and its re-login
\* carries the username of the second one
C34_Witness ==
    \E t \in Tasks :
        /\ task[t].op = "submit_mfa"
        /\ task[t].pc = "relogin_post"
        /\ hist.raced # <<>>
        /\ hist.raced[1] # hist.raced[2]
        /\ task[t].req.user = EncodeString(hist.raced[2])
        /\ task[t].req.user # EncodeString(hist.raced[1])

\* C35: in every reachable state the token that request puts in its bodies
\* (self.token) and the x-token header the transport sends agree: both are
\* absent, or both hold the same value.
C35_TokenAndHeaderAgree ==
    IF Truthy(token)
    THEN client_headers.tok = token
    ELSE client_headers.tok = None

\* C36: when a GTK fetch has returned, raised or given no cookie, the x-gtk
\* entry of the client's header map and of the transport's headers is
\* absent or is the cookie of that very fetch; the value of an earlier
\* fetch does not survive.
C36_GtkHeaderIsOfLatestFetch ==
    [][\A t \in Tasks :
          (/\ task[t].pc \in {"login_gtk", "relogin_gtk"}
           /\ task'[t].pc # task[t].pc)
              => LET r == task'[t].resp
                 IN  /\ \/ headers'.gtk = None
                        \/ r.exc = None /\ headers'.gtk = r.cookie
                     /\ \/ client_headers'.gtk = None
                        \/ r.exc = None /\ client_headers'.gtk = r.cookie]_vars

\* C36 witness: on a client that holds the token of an earlier login, the
\* fetch of a new login gave no cookie and neither map has an x-gtk entry
C36_Witness ==
    \E t \in Tasks :
        /\ task[t].op = "login" /\ task[t].pc = "login_post"
        /\ task[t].loginCalledAtCall /\ task[t].tokenAtCall # None
        /\ task[t].resp.exc = None /\ task[t].resp.cookie = None
        /\ headers.gtk = None /\ client_headers.gtk = None

\* C37: a submit_mfa call that fails at the answer step (the answer response
\* has a code other than 200, or lacks cn or cv) leaves the stored token,
\* both header maps and the cached credentials as they were before the
\* call: neither the call nor the return of the answer POST changes them.
C37_FailedAnswerChangesNothing ==
    [][\A t \in Tasks :
          \/ task[t].pc = "idle" /\ task'[t].op = "submit_mfa"
          \/ /\ task[t].pc = "mfa_post" /\ task'[t].pc = "done"
             /\ task'[t].resp.exc = None /\ task'[t].resp.json
             /\ \/ task'[t].resp.code # 200
                \/ DeviceTokensMissing(task'[t].resp.cn, task'[t].resp.cv)
          => /\ UNCHANGED <<token, headers, client_headers, temp_credentials>>
             /\ task'[t].pc = "done" => task'[t].result.kind = "error"]_vars

\* C37 witness: the answer was accepted without device tokens on a response
\* that carries a new x-token header, and the client still holds the token
\* and the header it had at the call
C37_Witness ==
    \E t \in Tasks :
        /\ IsDone(t) /\ task[t].op = "submit_mfa"
        /\ task[t].result.msg = "MFA success but CN/CV missing"
        /\ task[t].resp.xtoken = "t2"
        /\ task[t].tokenAtCall = "t1" /\ token = "t1"
        /\ headers.tok = "t1" /\ client_headers.tok = "t1"
        /\ temp_credentials # NoAttr

====
